---- MODULE Spec2Model ----
(***************************************************************************)
(* Model of CodecSelection (video codec preference, negotiation against    *)
(* remote advertisements, encode-time telemetry) and of                    *)
(* VADTalkMutedDetection (talk-while-muted detection) of lib-jitsi-meet.   *)
(***************************************************************************)
EXTENDS Integers, Sequences, FiniteSets, TLC

(***************************************************************************)
(* Bounds of the model.                                                    *)
(***************************************************************************)
\* longest explicit preferenceOrder drawn for the constructor
MaxOrderLen == 2
\* number of remote participant slots of the conference
MaxParticipants == 2
\* number of encode-stats samples processed in one behaviour, over all batches
MaxSamples == 4
\* number of local audio tracks added to the conference, one VAD emitter each
MaxEmitters == 2
\* longest buffer of VAD scores gathered in one processing phase
MaxScores == 3
\* VAD_TALK_WHILE_MUTED events followed between two track events
MaxEmitted == 2
\* promise callbacks of the detector that wait in the microtask queue at once
MaxQueue == 3
\* listeners one VAD emitter gets attached
MaxListeners == 3

(***************************************************************************)
(* Codec identifiers (CodecMimeType) and the target order tables.          *)
(***************************************************************************)
VP8 == "vp8"
VP9 == "vp9"
H264 == "h264"
AV1 == "av1"

DESKTOP_VIDEO_CODEC_ORDER == <<VP9, VP8, H264, AV1>>
MOBILE_P2P_VIDEO_CODEC_ORDER == <<H264, VP8, VP9, AV1>>
MOBILE_VIDEO_CODEC_ORDER == <<VP8, VP9, H264, AV1>>

ConnectionTypes == {"jvb", "p2p"}

\* the value of an absent (undefined) string-valued option or field
Undefined == "undefined"

(***************************************************************************)
(* Generic sequence helpers (Array.prototype methods).                     *)
(***************************************************************************)
Range(s) == {s[i] : i \in 1..Len(s)}

\* Array.prototype.filter with the predicate "member of keep"
RECURSIVE FilterIn(_, _)
FilterIn(s, keep) ==
    IF s = <<>> THEN <<>>
    ELSE (IF Head(s) \in keep THEN <<Head(s)>> ELSE <<>>) \o FilterIn(Tail(s), keep)

\* Array.prototype.filter(codec => codec !== x)
FilterOut(s, x) == FilterIn(s, Range(s) \ {x})

\* Array.prototype.findIndex(codec => codec === x); 0 stands for -1
FindIndex(s, x) ==
    IF x \in Range(s) THEN CHOOSE i \in 1..Len(s) : s[i] = x /\ \A j \in 1..(i - 1) : s[j] # x
    ELSE 0

\* Array.prototype.splice(index, 1) for a 1-based index
Splice(s, i) == SubSeq(s, 1, i - 1) \o SubSeq(s, i + 1, Len(s))

\* sequences over S of length at most n
SeqsUpTo(S, n) == UNION {[1..k -> S] : k \in 0..n}

\* s is a subsequence of t (relative order preserved)
RECURSIVE IsSubseq(_, _)
IsSubseq(s, t) ==
    IF s = <<>> THEN TRUE
    ELSE IF t = <<>> THEN FALSE
    ELSE IF Head(s) = Head(t) THEN IsSubseq(Tail(s), Tail(t))
    ELSE IsSubseq(s, Tail(t))

(***************************************************************************)
(* String.prototype.toLowerCase on the strings the model draws.            *)
(***************************************************************************)
ToLowerCase(s) ==
    CASE s = "VP8" -> "vp8"
      [] s = "VP9" -> "vp9"
      [] s = "H264" -> "h264"
      [] s = "AV1" -> "av1"
      [] s = "video/VP8" -> "video/vp8"
      [] s = "video/VP9" -> "video/vp9"
      [] s = "video/H264" -> "video/h264"
      [] s = "video/AV1" -> "video/av1"
      [] OTHER -> s

\* `${MediaType.VIDEO}/${codec}`
VideoMime(codec) == "video/" \o codec

\* preferenceOrder.map(codec => codec.toLowerCase())
RECURSIVE LowerAll(_)
LowerAll(s) == IF s = <<>> THEN <<>> ELSE <<ToLowerCase(Head(s))>> \o LowerAll(Tail(s))

(***************************************************************************)
(* State.                                                                  *)
(***************************************************************************)
VARIABLES
    phase,                \* "new" before the constructor has run, "ready" after
    options,              \* options[connectionType]: the config.js settings
    browser,              \* isMobileDevice / supportsVP9 / isWebKitBased
    rtcCodecs,            \* mimeTypes of RTCRtpReceiver.getCapabilities(video).codecs
    e2ee,                 \* conference.isE2EEEnabled()
    supportedVideoCodecs, \* the constructor's supportedCodecs of each connection type
    codecPreferenceOrder, \* this.codecPreferenceOrder[connectionType]
    screenshareCodec,     \* this.screenshareCodec[connectionType]
    visitorCodecs,        \* this.visitorCodecs
    encodeTimeStats,      \* this.encodeTimeStats: trackId -> series of records
    jvbJingleSession,     \* conference.jvbJingleSession is set
    p2pJingleSession,     \* the conference has a p2p session
    activeSession,        \* conference.getActiveMediaSession(): a session, or none
    participants,         \* roster: slot -> presence media info of the participant
    videoCodecs,          \* per session, the list last given to setVideoCodecs
    localVideoTracks,     \* rtcIds of conference.getLocalVideoTracks()
    statsBatch,           \* the encode-stats batch processed by the most recent step
    delivered,            \* number of samples processed so far
    batchCount,           \* per track, the number of processed batches with a sample of it
    audioTrack,           \* the local audio track of the conference, 0 for none
    trackMuted,           \* track.isMuted() of each local audio track
    emitters,             \* the TrackVADEmitter asked for each track: status, listeners
    vadEmitter,           \* this._vadEmitter: an emitter, 0 for null
    processing,           \* this._processing
    scoreArray,           \* this._scoreArray
    processTimeout,       \* the timeout of this._processTimeout is pending
    emitted,              \* VAD_TALK_WHILE_MUTED events since the most recent track event
    microtasks,           \* the detector's promise callbacks that are queued, first to run first
    vadProcessors,        \* per track, the promise _createVADProcessor() returned, if any
    last                  \* what the most recent step did (handler, result, fault)

vars == <<phase, options, browser, rtcCodecs, e2ee, supportedVideoCodecs,
          codecPreferenceOrder, screenshareCodec,
          visitorCodecs, encodeTimeStats, jvbJingleSession, p2pJingleSession, activeSession,
          participants, videoCodecs, localVideoTracks, statsBatch, delivered, batchCount,
          audioTrack, trackMuted, emitters, vadEmitter, processing, scoreArray,
          processTimeout, emitted, microtasks, vadProcessors, last>>

configVars == <<options, browser, rtcCodecs>>
selectionVars == <<supportedVideoCodecs, codecPreferenceOrder, screenshareCodec>>
conferenceVars == <<e2ee, jvbJingleSession, p2pJingleSession, activeSession, participants,
                    localVideoTracks>>
statsVars == <<encodeTimeStats, statsBatch, delivered, batchCount>>
vadVars == <<audioTrack, trackMuted, emitters, vadEmitter, processing, scoreArray,
             processTimeout, emitted, microtasks, vadProcessors>>

(***************************************************************************)
(* _getSupportedVideoCodecs                                                *)
(***************************************************************************)
\* the target table of the device class and connection type
VideoCodecMimeTypes(connectionType, isMobileDevice) ==
    IF isMobileDevice /\ connectionType = "p2p" THEN MOBILE_P2P_VIDEO_CODEC_ORDER
    ELSE IF isMobileDevice THEN MOBILE_VIDEO_CODEC_ORDER
    ELSE DESKTOP_VIDEO_CODEC_ORDER

\* mutant: the fallback to VP8 is missing
GetSupportedVideoCodecsNoFallback(connectionType, isMobileDevice, mimeTypes) ==
    FilterIn(VideoCodecMimeTypes(connectionType, isMobileDevice),
             {c \in {VP8, VP9, H264, AV1} : \E m \in mimeTypes : ToLowerCase(m) = VideoMime(c)})

GetSupportedVideoCodecs(connectionType, isMobileDevice, mimeTypes) ==
    LET supportedCodecs ==
            FilterIn(VideoCodecMimeTypes(connectionType, isMobileDevice),
                     {c \in {VP8, VP9, H264, AV1} :
                         \E m \in mimeTypes : ToLowerCase(m) = VideoMime(c)})
    IN  IF Len(supportedCodecs) = 0 THEN <<VP8>> ELSE supportedCodecs

(***************************************************************************)
(* constructor: the codec preference order of one connection type          *)
(***************************************************************************)
\* preferenceOrder branch
ExplicitOrder(opt, supportedCodecs) ==
    FilterIn(LowerAll(opt.preferenceOrder.list), Range(supportedCodecs))

\* mutant: the preferred codec is moved to the front without looking it up
MovePreferredUnchecked(selectedOrder, preferredCodec) ==
    IF preferredCodec # Undefined
    THEN <<preferredCodec>> \o FilterOut(selectedOrder, preferredCodec)
    ELSE selectedOrder

\* mutant: the test of the index is inverted, a codec that is found stays where it is
MovePreferredInverted(selectedOrder, preferredCodec) ==
    IF preferredCodec # Undefined /\ FindIndex(selectedOrder, preferredCodec) = 0
    THEN <<preferredCodec>> \o selectedOrder
    ELSE selectedOrder

\* "Move the preferred codec to the top of the list."
MovePreferred(selectedOrder, preferredCodec) ==
    LET index == FindIndex(selectedOrder, preferredCodec)
    IN  IF preferredCodec # Undefined /\ index # 0
        THEN <<preferredCodec>> \o Splice(selectedOrder, index)
        ELSE selectedOrder

\* mutant: VP8 can be disabled like any other codec
LegacyOrderDisableAny(opt, supportedCodecs) ==
    LET disabledCodec == ToLowerCase(opt.disabledCodec)
        preferredCodec == ToLowerCase(opt.preferredCodec)
        enabled == IF disabledCodec # Undefined
                   THEN FilterOut(supportedCodecs, disabledCodec)
                   ELSE supportedCodecs
    IN  MovePreferred(enabled, preferredCodec)

\* preferredCodec / disabledCodec (deprecated) branch
LegacyOrder(opt, supportedCodecs) ==
    LET disabledCodec == ToLowerCase(opt.disabledCodec)
        preferredCodec == ToLowerCase(opt.preferredCodec)
        enabled == IF disabledCodec # Undefined /\ disabledCodec # VP8
                   THEN FilterOut(supportedCodecs, disabledCodec)
                   ELSE supportedCodecs
    IN  MovePreferred(enabled, preferredCodec)

\* mutant: the deprecated settings are applied on top of an explicit order
ConfiguredOrderLegacyToo(opt, supportedCodecs) ==
    IF opt.preferenceOrder.defined
    THEN LegacyOrder(opt, ExplicitOrder(opt, supportedCodecs))
    ELSE IF opt.preferredCodec # Undefined \/ opt.disabledCodec # Undefined
         THEN LegacyOrder(opt, supportedCodecs)
    ELSE supportedCodecs

ConfiguredOrder(opt, supportedCodecs) ==
    IF opt.preferenceOrder.defined THEN ExplicitOrder(opt, supportedCodecs)
    ELSE IF opt.preferredCodec # Undefined \/ opt.disabledCodec # Undefined
         THEN LegacyOrder(opt, supportedCodecs)
    ELSE supportedCodecs

IsVp9EncodeSupported(connectionType, br) ==
    br.supportsVP9 \/ (br.isWebKitBased /\ connectionType = "p2p")

\* VP9 is pushed to the end of the list, or removed when E2EE is enabled
Vp9PostProcess(selectedOrder, connectionType, br, e2eeEnabled) ==
    IF ~IsVp9EncodeSupported(connectionType, br) \/ e2eeEnabled
    THEN LET index == FindIndex(selectedOrder, VP9)
         IN  IF index # 0
             THEN Splice(selectedOrder, index) \o (IF ~e2eeEnabled THEN <<VP9>> ELSE <<>>)
             ELSE selectedOrder
    ELSE selectedOrder

SelectedOrder(opt, connectionType, br, mimeTypes, e2eeEnabled) ==
    Vp9PostProcess(
        ConfiguredOrder(opt, GetSupportedVideoCodecs(connectionType, br.isMobileDevice, mimeTypes)),
        connectionType, br, e2eeEnabled)

\* "Set the preferred screenshare codec."
SelectedScreenshareCodec(opt, connectionType, br, mimeTypes) ==
    IF opt.screenshareCodec # Undefined
       /\ opt.screenshareCodec
            \in Range(GetSupportedVideoCodecs(connectionType, br.isMobileDevice, mimeTypes))
    THEN opt.screenshareCodec
    ELSE Undefined

(***************************************************************************)
(* _selectPreferredCodec                                                   *)
(***************************************************************************)
Sessions == {"jvb", "p2p"}
NoSession == "none"

\* rtcIds of the tracks synchronization sources belong to; NoTrack: getTrackBySSRC finds none
TrackIds == {"t1", "t2"}
NoTrack == "null"

\* an optional array: undefined, or a list
NoList == [defined |-> FALSE, list |-> <<>>]
ListOf(l) == [defined |-> TRUE, list |-> l]

\* presence media info of a participant that publishes nothing (or no info at all)
NoMediaInfo == [codecList |-> NoList, codecType |-> Undefined]
NotJoined == [joined |-> FALSE, info |-> NoMediaInfo]

\* mutant: a trigger without a session falls back to the p2p session
TargetSessionOrP2P(mediaSession, hasJvb) ==
    IF mediaSession # NoSession THEN mediaSession
    ELSE IF hasJvb THEN "jvb"
    ELSE "p2p"

\* mutant: a trigger without a session works on the p2p session
TargetSessionPeer(mediaSession, hasJvb) ==
    IF mediaSession # NoSession THEN mediaSession ELSE "p2p"

\* the session a trigger works on: the one supplied, else conference.jvbJingleSession
TargetSession(mediaSession, hasJvb) ==
    IF mediaSession # NoSession THEN mediaSession
    ELSE IF hasJvb THEN "jvb"
    ELSE NoSession

\* session === this.conference.jvbJingleSession
IsJvbSession(session, hasJvb) == hasJvb /\ session = "jvb"

\* session.isP2P
IsP2P(session) == session = "p2p"

\* mutant: the E2EE override is missing
LocalPreferredCodecOrderNoE2EE(session, hasJvb, preference, e2eeEnabled) ==
    IF IsJvbSession(session, hasJvb) THEN preference["jvb"] ELSE preference["p2p"]

\* localPreferredCodecOrder
LocalPreferredCodecOrder(session, hasJvb, preference, e2eeEnabled) ==
    IF e2eeEnabled /\ IsJvbSession(session, hasJvb) THEN <<VP8>>
    ELSE IF IsJvbSession(session, hasJvb) THEN preference["jvb"] ELSE preference["p2p"]

\* the codecs one remote participant constrains the selection with
RemoteCodecs(info) ==
    IF info.codecList.defined THEN info.codecList.list
    ELSE IF info.codecType # Undefined THEN <<info.codecType>>
    ELSE <<>>

\* remoteCodecsPerParticipant before the visitor codecs are included
RECURSIVE ParticipantCodecs(_, _)
ParticipantCodecs(roster, n) ==
    IF n = 0 THEN <<>>
    ELSE ParticipantCodecs(roster, n - 1)
         \o (IF roster[n].joined THEN <<RemoteCodecs(roster[n].info)>> ELSE <<>>)

\* mutant: the visitor codecs are not included
RemoteCodecsPerParticipantNoVisitors(roster, visitors) ==
    ParticipantCodecs(roster, Len(roster))

\* "Include the visitor codecs."
RemoteCodecsPerParticipant(roster, visitors) ==
    ParticipantCodecs(roster, Len(roster))
    \o (IF Len(visitors) # 0 THEN <<visitors>> ELSE <<>>)

\* mutant: a participant that publishes no codecs eliminates every codec
CodecNotSupportedByRemoteStrict(localCodec, remoteCodecsPerParticipant) ==
    \E i \in 1..Len(remoteCodecsPerParticipant) :
        localCodec \notin Range(remoteCodecsPerParticipant[i])

\* codecNotSupportedByRemote after the loop over remoteCodecsPerParticipant
CodecNotSupportedByRemote(localCodec, remoteCodecsPerParticipant) ==
    \E i \in 1..Len(remoteCodecsPerParticipant) :
        /\ Len(remoteCodecsPerParticipant[i]) # 0
        /\ localCodec \notin Range(remoteCodecsPerParticipant[i])

\* mutant: the remote codecs are applied to p2p sessions too
SelectedCodecOrderAnySession(localPreferredCodecOrder, isP2P, remoteCodecsPerParticipant) ==
    FilterIn(localPreferredCodecOrder,
             {c \in Range(localPreferredCodecOrder) :
                 ~CodecNotSupportedByRemote(c, remoteCodecsPerParticipant)})

\* mutant: the codecs that remain are put in the order of the first remote list
SelectedCodecOrderRemoteFirst(localPreferredCodecOrder, isP2P, remoteCodecsPerParticipant) ==
    LET kept == {c \in Range(localPreferredCodecOrder) :
                    isP2P \/ ~CodecNotSupportedByRemote(c, remoteCodecsPerParticipant)}
        lists == {i \in 1..Len(remoteCodecsPerParticipant) :
                    Len(remoteCodecsPerParticipant[i]) # 0}
    IN  IF isP2P \/ lists = {} THEN FilterIn(localPreferredCodecOrder, kept)
        ELSE FilterIn(remoteCodecsPerParticipant[CHOOSE i \in lists : \A j \in lists : i <= j],
                      kept)

\* selectedCodecOrder: the reduce over localPreferredCodecOrder
SelectedCodecOrder(localPreferredCodecOrder, isP2P, remoteCodecsPerParticipant) ==
    FilterIn(localPreferredCodecOrder,
             {c \in Range(localPreferredCodecOrder) :
                 isP2P \/ ~CodecNotSupportedByRemote(c, remoteCodecsPerParticipant)})

\* the record of a step that ran no negotiation
Idle(handler) ==
    [handler |-> handler, session |-> NoSession, completed |-> FALSE, order |-> <<>>,
     calls |-> {}, fault |-> FALSE]

\* mutant: an empty list is given to the session as well
SetVideoCodecsCallsAlways(session, order) == {<<session, order>>}

\* mutant: the list is given to the jvb session whatever the target is
SetVideoCodecsCallsJvb(session, order) ==
    IF Len(order) = 0 THEN {} ELSE {<<"jvb", order>>}

\* the calls session.setVideoCodecs(selectedCodecOrder) made: none for an empty list
SetVideoCodecsCalls(session, order) ==
    IF Len(order) = 0 THEN {} ELSE {<<session, order>>}

\* the sessions' codec lists after the calls
AfterCalls(codecs, calls) ==
    [s \in Sessions |->
        IF \E c \in calls : c[1] = s THEN (CHOOSE c \in calls : c[1] = s)[2] ELSE codecs[s]]

\* _selectPreferredCodec(mediaSession) with the roster, the visitor codecs and the session
\* table the handler finds; sets videoCodecs and last
SelectPreferredCodec(handler, mediaSession, hasJvb, roster, visitors) ==
    LET session == TargetSession(mediaSession, hasJvb)
        localOrder == LocalPreferredCodecOrder(session, hasJvb, codecPreferenceOrder, e2ee)
        order == SelectedCodecOrder(localOrder, IsP2P(session),
                                    RemoteCodecsPerParticipant(roster, visitors.list))
        calls == SetVideoCodecsCalls(session, order)
    IN  IF session = NoSession
        THEN /\ videoCodecs' = videoCodecs
             /\ last' = Idle(handler)
        ELSE IF ~visitors.defined
        THEN \* this.visitorCodecs.length of undefined: a TypeError leaves the handler
             /\ videoCodecs' = videoCodecs
             /\ last' = [Idle(handler) EXCEPT !.session = session, !.fault = TRUE]
        ELSE /\ videoCodecs' = AfterCalls(videoCodecs, calls)
             /\ last' = [handler |-> handler, session |-> session, completed |-> TRUE,
                         order |-> order, calls |-> calls, fault |-> FALSE]

(***************************************************************************)
(* Inputs the model draws.                                                 *)
(***************************************************************************)
\* presence media infos of remote participants
MediaInfos ==
    { NoMediaInfo,
      [codecList |-> ListOf(<<>>), codecType |-> Undefined],
      [codecList |-> ListOf(<<VP8>>), codecType |-> Undefined],
      [codecList |-> ListOf(<<VP8, VP9>>), codecType |-> H264],
      [codecList |-> NoList, codecType |-> H264] }

\* codec lists delivered with CONFERENCE_VISITOR_CODECS_CHANGED (NoList: no list at all)
VisitorLists == {NoList, ListOf(<<>>), ListOf(<<VP8>>), ListOf(<<VP9, H264>>)}

NoOptions ==
    [preferenceOrder |-> NoList, preferredCodec |-> Undefined, disabledCodec |-> Undefined,
     screenshareCodec |-> Undefined]

AllMimeTypes == {"video/VP8", "video/VP9", "video/H264", "video/AV1", "video/rtx"}

\* configurations the negotiation is explored with
NegotiationSetups ==
    { [options |-> [jvb |-> NoOptions, p2p |-> NoOptions],
       browser |-> [isMobileDevice |-> FALSE, supportsVP9 |-> TRUE, isWebKitBased |-> FALSE],
       rtcCodecs |-> AllMimeTypes],
      [options |-> [jvb |-> [NoOptions EXCEPT !.preferenceOrder = ListOf(<<"VP9", "H264">>)],
                    p2p |-> [NoOptions EXCEPT !.preferredCodec = "H264"]],
       browser |-> [isMobileDevice |-> TRUE, supportsVP9 |-> TRUE, isWebKitBased |-> FALSE],
       rtcCodecs |-> {"video/VP8", "video/VP9", "video/H264"}] }

(***************************************************************************)
(* constructor                                                             *)
(***************************************************************************)
\* the fields the constructor leaves, for the configuration in options/browser/rtcCodecs
Constructed(opts, br, mimeTypes, e2eeEnabled) ==
    [supportedCodecs |->
        [ct \in ConnectionTypes |-> GetSupportedVideoCodecs(ct, br.isMobileDevice, mimeTypes)],
     codecPreferenceOrder |->
        [ct \in ConnectionTypes |-> SelectedOrder(opts[ct], ct, br, mimeTypes, e2eeEnabled)],
     screenshareCodec |->
        [ct \in ConnectionTypes |-> SelectedScreenshareCodec(opts[ct], ct, br, mimeTypes)]]

\* the fields the constructor of VADTalkMutedDetection leaves, in a conference that has
\* had no local audio track yet
VADConstructed ==
    /\ audioTrack = 0
    /\ trackMuted = [t \in 1..MaxEmitters |-> FALSE]
    /\ emitters = [e \in 1..MaxEmitters |-> [status |-> "none", listeners |-> 0,
                                              started |-> FALSE]]
    /\ vadEmitter = 0
    /\ processing = FALSE
    /\ scoreArray = <<>>
    /\ processTimeout = FALSE
    /\ emitted = 0
    /\ microtasks = <<>>
    /\ vadProcessors = [e \in 1..MaxEmitters |-> "none"]

\* the conference before any session, participant or statistics
InitConference ==
    /\ VADConstructed
    /\ visitorCodecs = ListOf(<<>>)
    /\ encodeTimeStats = [t \in TrackIds |-> <<>>]
    /\ statsBatch = <<>>
    /\ delivered = 0
    /\ batchCount = [t \in TrackIds |-> 0]
    /\ jvbJingleSession = FALSE
    /\ p2pJingleSession = FALSE
    /\ activeSession = NoSession
    /\ participants = [p \in 1..MaxParticipants |-> NotJoined]
    /\ videoCodecs = [s \in Sessions |-> <<>>]
    /\ localVideoTracks = {"t1"}
    /\ last = Idle("none")

\* the state after construction, for the negotiation
Init ==
    /\ phase = "ready"
    /\ \E setup \in NegotiationSetups :
        /\ options = setup.options
        /\ browser = setup.browser
        /\ rtcCodecs = setup.rtcCodecs
    /\ e2ee \in BOOLEAN
    /\ supportedVideoCodecs = Constructed(options, browser, rtcCodecs, e2ee).supportedCodecs
    /\ codecPreferenceOrder = Constructed(options, browser, rtcCodecs, e2ee).codecPreferenceOrder
    /\ screenshareCodec = Constructed(options, browser, rtcCodecs, e2ee).screenshareCodec
    /\ InitConference

(***************************************************************************)
(* Event handlers of the negotiation.                                      *)
(***************************************************************************)
\* _MEDIA_SESSION_STARTED: the conference holds a new session and announces it
SessionStarted(s) ==
    /\ phase = "ready"
    /\ IF s = "jvb" THEN ~jvbJingleSession ELSE ~p2pJingleSession
    /\ jvbJingleSession' = (jvbJingleSession \/ s = "jvb")
    /\ p2pJingleSession' = (p2pJingleSession \/ s = "p2p")
    /\ SelectPreferredCodec("sessionStarted", s, jvbJingleSession', participants, visitorCodecs)
    /\ UNCHANGED <<vadVars, phase, configVars, selectionVars, e2ee, activeSession, participants,
                   localVideoTracks, visitorCodecs, statsVars>>

\* the conference drops a session; a session started later is a new object
SessionEnded(s) ==
    /\ phase = "ready"
    /\ IF s = "jvb" THEN jvbJingleSession ELSE p2pJingleSession
    /\ jvbJingleSession' = (jvbJingleSession /\ s # "jvb")
    /\ p2pJingleSession' = (p2pJingleSession /\ s # "p2p")
    /\ activeSession' = (IF activeSession = s THEN NoSession ELSE activeSession)
    /\ videoCodecs' = [videoCodecs EXCEPT ![s] = <<>>]
    /\ last' = Idle("none")
    /\ UNCHANGED <<vadVars, phase, configVars, selectionVars, e2ee, participants, localVideoTracks,
                   visitorCodecs, statsVars>>

\* USER_JOINED: the participant is in the roster when the handler runs
ParticipantJoined(p, info) ==
    /\ phase = "ready"
    /\ ~participants[p].joined
    /\ participants' = [participants EXCEPT ![p] = [joined |-> TRUE, info |-> info]]
    /\ SelectPreferredCodec("participantJoined", NoSession, jvbJingleSession, participants',
                            visitorCodecs)
    /\ UNCHANGED <<vadVars, phase, configVars, selectionVars, e2ee, jvbJingleSession, p2pJingleSession,
                   activeSession, localVideoTracks, visitorCodecs, statsVars>>

\* USER_LEFT: the participant is out of the roster when the handler runs
ParticipantLeft(p) ==
    /\ phase = "ready"
    /\ participants[p].joined
    /\ participants' = [participants EXCEPT ![p] = NotJoined]
    /\ SelectPreferredCodec("participantLeft", NoSession, jvbJingleSession, participants',
                            visitorCodecs)
    /\ UNCHANGED <<vadVars, phase, configVars, selectionVars, e2ee, jvbJingleSession, p2pJingleSession,
                   activeSession, localVideoTracks, visitorCodecs, statsVars>>

\* mutant: end-to-end encryption switched on or off rebuilds the preference lists
SetE2EERebuild(enabled) ==
    /\ phase = "ready"
    /\ e2ee # enabled
    /\ e2ee' = enabled
    /\ codecPreferenceOrder'
         = Constructed(options, browser, rtcCodecs, enabled).codecPreferenceOrder
    /\ last' = Idle("none")
    /\ UNCHANGED <<vadVars, phase, configVars, supportedVideoCodecs, screenshareCodec,
                   jvbJingleSession, p2pJingleSession, activeSession, participants,
                   localVideoTracks, visitorCodecs, videoCodecs, statsVars>>

\* mutant: the delivered codecs are added to the ones already held
UpdateVisitorCodecsMerge(codecList, sameArray) ==
    LET merged == IF codecList.defined /\ visitorCodecs.defined
                  THEN ListOf(visitorCodecs.list
                              \o FilterIn(codecList.list,
                                          Range(codecList.list) \ Range(visitorCodecs.list)))
                  ELSE codecList
    IN  /\ phase = "ready"
        /\ sameArray => codecList = visitorCodecs
        /\ ~codecList.defined /\ ~visitorCodecs.defined => sameArray
        /\ IF sameArray
           THEN /\ UNCHANGED <<visitorCodecs, videoCodecs>>
                /\ last' = Idle("visitorCodecsChanged")
           ELSE /\ visitorCodecs' = merged
                /\ SelectPreferredCodec("visitorCodecsChanged", NoSession, jvbJingleSession,
                                        participants, merged)
        /\ UNCHANGED <<vadVars, phase, configVars, selectionVars, conferenceVars, statsVars>>

\* _updateVisitorCodecs(codecList); sameArray: codecList is the array already held
UpdateVisitorCodecs(codecList, sameArray) ==
    /\ phase = "ready"
    /\ sameArray => codecList = visitorCodecs
    /\ ~codecList.defined /\ ~visitorCodecs.defined => sameArray
    /\ IF sameArray
       THEN /\ UNCHANGED <<visitorCodecs, videoCodecs>>
            /\ last' = Idle("visitorCodecsChanged")
       ELSE /\ visitorCodecs' = codecList
            /\ SelectPreferredCodec("visitorCodecsChanged", NoSession, jvbJingleSession,
                                    participants, codecList)
    /\ UNCHANGED <<vadVars, phase, configVars, selectionVars, conferenceVars, statsVars>>

\* end-to-end encryption is switched on or off in the conference
SetE2EE(enabled) ==
    /\ phase = "ready"
    /\ e2ee # enabled
    /\ e2ee' = enabled
    /\ last' = Idle("none")
    /\ UNCHANGED <<vadVars, phase, configVars, selectionVars, jvbJingleSession, p2pJingleSession,
                   activeSession, participants, localVideoTracks, visitorCodecs, videoCodecs,
                   statsVars>>

Next ==
    \/ \E s \in Sessions : SessionStarted(s)
    \/ \E s \in Sessions : SessionEnded(s)
    \/ \E p \in 1..MaxParticipants, info \in MediaInfos : ParticipantJoined(p, info)
    \/ \E p \in 1..MaxParticipants : ParticipantLeft(p)
    \/ \E codecList \in VisitorLists, sameArray \in BOOLEAN :
          UpdateVisitorCodecs(codecList, sameArray)
    \/ \E enabled \in BOOLEAN : SetE2EE(enabled)

Spec == Init /\ [][Next]_vars

(***************************************************************************)
(* _processEncodeTimeStats                                                 *)
(***************************************************************************)
Min(a, b) == IF a < b THEN a ELSE b
Max(a, b) == IF a > b THEN a ELSE b

RECURSIVE GCD(_, _)
GCD(a, b) == IF b = 0 THEN a ELSE GCD(b, a % b)

\* the number total / count, kept exact as a fraction in lowest terms
Quotient(total, count) ==
    LET g == GCD(total, count)
    IN  [num |-> total \div g, den |-> count \div g]

\* the entries of a batch that belong to track t, in processing order:
\* statsPerTrack.get(t).trackStats with the codec and timestamp of each entry
RECURSIVE TrackStats(_, _)
TrackStats(stats, t) ==
    IF stats = <<>> THEN <<>>
    ELSE (IF Head(stats).track = t THEN <<Head(stats).stat>> ELSE <<>>)
         \o TrackStats(Tail(stats), t)

\* trackStats.map(stat => stat.encodeTime).reduce((total, current) => total + current, 0)
RECURSIVE TotalEncodeTime(_)
TotalEncodeTime(trackStats) ==
    IF trackStats = <<>> THEN 0
    ELSE Head(trackStats).encodeTime + TotalEncodeTime(Tail(trackStats))

\* mutant: the total is divided by the number of samples of the whole batch
AvgEncodeTimeOverBatch(trackStats, stats) == Quotient(TotalEncodeTime(trackStats), Len(stats))

\* avgEncodeTime
AvgEncodeTime(trackStats, stats) == Quotient(TotalEncodeTime(trackStats), Len(trackStats))

\* ssrcStats.encodeResolution of one sample
SsrcResolution(stat) == Min(stat.resolution.height, stat.resolution.width)

\* mutant: the resolution of the last sample
EncodeResolutionLast(trackStats) == SsrcResolution(trackStats[Len(trackStats)])

\* trackStats.map(stat => stat.encodeResolution).reduce(Math.max, 0)
RECURSIVE EncodeResolution(_)
EncodeResolution(trackStats) ==
    IF trackStats = <<>> THEN 0
    ELSE Max(EncodeResolution(SubSeq(trackStats, 1, Len(trackStats) - 1)),
             SsrcResolution(trackStats[Len(trackStats)]))

\* mutant: the reason of the last limited sample
QualityLimitationReasonLast(trackStats) ==
    LET limited == {i \in 1..Len(trackStats) : trackStats[i].qualityLimitationReason # "none"}
    IN  IF limited = {} THEN "none"
        ELSE trackStats[CHOOSE i \in limited : \A j \in limited : j <= i].qualityLimitationReason

\* trackStats.find(stat => stat.qualityLimitationReason !== 'none'), 'none' by default
QualityLimitationReason(trackStats) ==
    LET limited == {i \in 1..Len(trackStats) : trackStats[i].qualityLimitationReason # "none"}
    IN  IF limited = {} THEN "none"
        ELSE trackStats[CHOOSE i \in limited : \A j \in limited : i <= j].qualityLimitationReason

\* mutant: codec and timestamp stay those of the first sample of the track
GroupSampleFirst(trackStats) == trackStats[1]

\* the sample existingStats.codec and existingStats.timestamp come from: the last one
GroupSample(trackStats) == trackStats[Len(trackStats)]

\* sourceStats of track trackId for its samples in the batch
SourceStats(trackId, stats, localTracks) ==
    LET trackStats == TrackStats(stats, trackId)
    IN  [avgEncodeTime |-> AvgEncodeTime(trackStats, stats),
         codec |-> GroupSample(trackStats).codec,
         encodeResolution |-> EncodeResolution(trackStats),
         qualityLimitationReason |-> QualityLimitationReason(trackStats),
         localTrack |-> IF trackId \in localTracks THEN trackId ELSE Undefined,
         timestamp |-> GroupSample(trackStats).timestamp]

\* mutant: the record replaces the series
StoreSourceStatsOverwrite(series, sourceStats) == <<sourceStats>>

\* exisitingStats.push(sourceStats), or a new series of one record
StoreSourceStats(series, sourceStats) ==
    IF Len(series) # 0 THEN Append(series, sourceStats) ELSE <<sourceStats>>

\* the tracks with a sample in the batch: statsPerTrack.keys()
TracksOf(stats) == {stats[i].track : i \in 1..Len(stats)}

\* mutant: every known track gets a record of the batch
EncodeTimeStatsAfterAllTracks(series, stats, localTracks) ==
    [t \in TrackIds |->
        IF TrackStats(stats, t) # <<>>
        THEN StoreSourceStats(series[t], SourceStats(t, stats, localTracks))
        ELSE IF Len(series[t]) # 0 THEN Append(series[t], series[t][Len(series[t])])
        ELSE series[t]]

\* this.encodeTimeStats after the aggregation loop
EncodeTimeStatsAfter(series, stats, localTracks) ==
    [t \in TrackIds |->
        IF t \in TracksOf(stats)
        THEN StoreSourceStats(series[t], SourceStats(t, stats, localTracks))
        ELSE series[t]]

\* the samples the model draws
Samples ==
    { [codec |-> VP8, encodeTime |-> 10, qualityLimitationReason |-> "none",
       resolution |-> [height |-> 180, width |-> 320], timestamp |-> 1000],
      [codec |-> VP9, encodeTime |-> 20, qualityLimitationReason |-> "cpu",
       resolution |-> [height |-> 720, width |-> 1280], timestamp |-> 2000],
      [codec |-> H264, encodeTime |-> 15, qualityLimitationReason |-> "bandwidth",
       resolution |-> [height |-> 640, width |-> 360], timestamp |-> 3000] }

\* the entries of a batch: a sample and the track getTrackBySSRC gives for its ssrc
StatsEntries == [track : TrackIds \cup {NoTrack}, stat : Samples]

\* mutant: the batch of any session's peerconnection is processed
ProcessEncodeTimeStatsAnySession(tpc, stats) ==
    /\ phase = "ready"
    /\ delivered + Len(stats) <= MaxSamples
    /\ IF activeSession = NoSession
       THEN /\ last' = [Idle("encodeStatsReceived") EXCEPT !.fault = TRUE]
            /\ statsBatch' = <<>>
            /\ UNCHANGED <<encodeTimeStats, delivered, batchCount>>
       ELSE IF NoTrack \in TracksOf(stats)
       THEN /\ last' = [Idle("encodeStatsReceived") EXCEPT !.session = tpc, !.fault = TRUE]
            /\ statsBatch' = <<>>
            /\ UNCHANGED <<encodeTimeStats, delivered, batchCount>>
       ELSE /\ encodeTimeStats' = EncodeTimeStatsAfter(encodeTimeStats, stats, localVideoTracks)
            /\ statsBatch' = stats
            /\ delivered' = delivered + Len(stats)
            /\ batchCount' = [t \in TrackIds |->
                                 batchCount[t] + (IF t \in TracksOf(stats) THEN 1 ELSE 0)]
            /\ last' = [Idle("encodeStatsReceived") EXCEPT !.session = tpc,
                                                           !.completed = TRUE]
    /\ UNCHANGED <<vadVars, phase, configVars, selectionVars, conferenceVars, visitorCodecs,
                   videoCodecs>>

\* ENCODE_TIME_STATS_RECEIVED(tpc, stats); tpc is the peerconnection of session tpc
ProcessEncodeTimeStats(tpc, stats) ==
    /\ phase = "ready"
    /\ delivered + Len(stats) <= MaxSamples
    /\ IF activeSession = NoSession
       THEN \* activeSession.peerconnection of no session: a TypeError leaves the handler
            /\ last' = [Idle("encodeStatsReceived") EXCEPT !.fault = TRUE]
            /\ statsBatch' = <<>>
            /\ UNCHANGED <<encodeTimeStats, delivered, batchCount>>
       ELSE IF activeSession # tpc
       THEN /\ last' = [Idle("encodeStatsReceived") EXCEPT !.session = tpc]
            /\ statsBatch' = <<>>
            /\ UNCHANGED <<encodeTimeStats, delivered, batchCount>>
       ELSE IF NoTrack \in TracksOf(stats)
       THEN \* track.rtcId of no track: a TypeError leaves the handler in the first loop
            /\ last' = [Idle("encodeStatsReceived") EXCEPT !.session = tpc, !.fault = TRUE]
            /\ statsBatch' = <<>>
            /\ UNCHANGED <<encodeTimeStats, delivered, batchCount>>
       ELSE /\ encodeTimeStats' = EncodeTimeStatsAfter(encodeTimeStats, stats, localVideoTracks)
            /\ statsBatch' = stats
            /\ delivered' = delivered + Len(stats)
            /\ batchCount' = [t \in TrackIds |->
                                 batchCount[t] + (IF t \in TracksOf(stats) THEN 1 ELSE 0)]
            /\ last' = [Idle("encodeStatsReceived") EXCEPT !.session = tpc,
                                                           !.completed = TRUE]
    /\ UNCHANGED <<vadVars, phase, configVars, selectionVars, conferenceVars, visitorCodecs,
                   videoCodecs>>

\* the conference switches its active media session (p2p <-> jvb), or has none
ActiveSessionChanged(s) ==
    /\ phase = "ready"
    /\ activeSession # s
    /\ s = "jvb" => jvbJingleSession
    /\ s = "p2p" => p2pJingleSession
    /\ activeSession' = s
    /\ last' = Idle("none")
    /\ statsBatch' = <<>>
    /\ UNCHANGED <<vadVars, phase, configVars, selectionVars, e2ee, jvbJingleSession,
                   p2pJingleSession, participants, localVideoTracks, visitorCodecs,
                   videoCodecs, encodeTimeStats, delivered, batchCount>>

\* the state after construction, for the telemetry: both sessions are there
InitStats ==
    /\ phase = "ready"
    /\ \E setup \in NegotiationSetups :
        /\ options = setup.options
        /\ browser = setup.browser
        /\ rtcCodecs = setup.rtcCodecs
        /\ setup.browser.isMobileDevice = FALSE
    /\ e2ee = FALSE
    /\ supportedVideoCodecs = Constructed(options, browser, rtcCodecs, e2ee).supportedCodecs
    /\ codecPreferenceOrder = Constructed(options, browser, rtcCodecs, e2ee).codecPreferenceOrder
    /\ screenshareCodec = Constructed(options, browser, rtcCodecs, e2ee).screenshareCodec
    /\ visitorCodecs = ListOf(<<>>)
    /\ encodeTimeStats = [t \in TrackIds |-> <<>>]
    /\ statsBatch = <<>>
    /\ delivered = 0
    /\ batchCount = [t \in TrackIds |-> 0]
    /\ jvbJingleSession = TRUE
    /\ p2pJingleSession = TRUE
    /\ activeSession = "jvb"
    /\ participants = [p \in 1..MaxParticipants |-> NotJoined]
    /\ videoCodecs = [s \in Sessions |-> <<>>]
    /\ localVideoTracks = {"t1"}
    /\ VADConstructed
    /\ last = Idle("none")

NextStats ==
    \/ \E tpc \in Sessions, stats \in SeqsUpTo(StatsEntries, MaxSamples - delivered) :
          ProcessEncodeTimeStats(tpc, stats)
    \/ \E s \in Sessions \cup {NoSession} : ActiveSessionChanged(s)

SpecStats == InitStats /\ [][NextStats]_vars

(***************************************************************************)
(* Every event the object subscribes to, in one conference: one remote     *)
(* participant, and encode-stats batches of at most one sample until the   *)
(* first sample is taken.                                                  *)
(***************************************************************************)
NextEvents ==
    \/ \E s \in Sessions : SessionStarted(s)
    \/ \E s \in Sessions : SessionEnded(s)
    \/ \E info \in MediaInfos : ParticipantJoined(1, info)
    \/ ParticipantLeft(1)
    \/ \E codecList \in VisitorLists, sameArray \in BOOLEAN :
          UpdateVisitorCodecs(codecList, sameArray)
    \/ \E enabled \in BOOLEAN : SetE2EE(enabled)
    \/ \E s \in Sessions \cup {NoSession} : ActiveSessionChanged(s)
    \/ \E tpc \in Sessions, stats \in SeqsUpTo(StatsEntries, 1) :
          delivered = 0 /\ ProcessEncodeTimeStats(tpc, stats)

SpecEvents == Init /\ [][NextEvents]_vars

(***************************************************************************)
(* The constructor as a step, for every configuration the model draws.     *)
(***************************************************************************)
\* codec names as config.js may spell them
ConfigCodecs == {"vp8", "VP9", "h264", "AV1"}
LegacyCodecs == {Undefined, "VP8", "vp9", "h264"}

\* the settings of one connection type
BuildOptions ==
    [preferenceOrder : {NoList} \cup {ListOf(l) : l \in SeqsUpTo(ConfigCodecs, MaxOrderLen)},
     preferredCodec : LegacyCodecs,
     disabledCodec : LegacyCodecs,
     screenshareCodec : {Undefined, "vp9"}]

Browsers == [isMobileDevice : BOOLEAN, supportsVP9 : BOOLEAN, isWebKitBased : BOOLEAN]

\* what RTCRtpReceiver.getCapabilities reports; nothing when it is not there
RtcCodecSets ==
    (SUBSET {"video/VP8", "video/VP9", "video/H264"}) \cup {{"video/rtx"}, AllMimeTypes}

\* before the constructor runs; both connection types get the same settings, each
\* type's result being a function of its own settings only
InitBuild ==
    /\ phase = "new"
    /\ \E opt \in BuildOptions : options = [ct \in ConnectionTypes |-> opt]
    /\ browser \in Browsers
    /\ rtcCodecs \in RtcCodecSets
    /\ e2ee \in BOOLEAN
    /\ supportedVideoCodecs = [ct \in ConnectionTypes |-> <<>>]
    /\ codecPreferenceOrder = [ct \in ConnectionTypes |-> <<>>]
    /\ screenshareCodec = [ct \in ConnectionTypes |-> Undefined]
    /\ InitConference

\* new CodecSelection(conference, options)
Construct ==
    /\ phase = "new"
    /\ phase' = "ready"
    /\ supportedVideoCodecs' = Constructed(options, browser, rtcCodecs, e2ee).supportedCodecs
    /\ codecPreferenceOrder'
         = Constructed(options, browser, rtcCodecs, e2ee).codecPreferenceOrder
    /\ screenshareCodec' = Constructed(options, browser, rtcCodecs, e2ee).screenshareCodec
    /\ visitorCodecs' = ListOf(<<>>)
    /\ encodeTimeStats' = [t \in TrackIds |-> <<>>]
    /\ last' = Idle("constructor")
    /\ UNCHANGED <<vadVars, configVars, conferenceVars, videoCodecs, statsBatch, delivered,
                   batchCount>>

NextBuild == Construct

SpecBuild == InitBuild /\ [][NextBuild]_vars

(***************************************************************************)
(* VADTalkMutedDetection.  VAD scores are in hundredths; the scores drawn  *)
(* are 0, 0.5 and 1, whose sums and averages are exact as JS numbers.      *)
(***************************************************************************)
VAD_AVG_THRESHOLD == 60
VAD_VOICE_LEVEL == 90
VadScores == {0, 50, 100}

\* everything but the detector's state and last
codecSelectionVars ==
    <<phase, configVars, selectionVars, conferenceVars, visitorCodecs, videoCodecs, statsVars>>

ShouldStartVADCompute(vadScore, isProcessing) ==
    vadScore > VAD_VOICE_LEVEL /\ ~isProcessing

\* computedScore is the fraction <<sum, length>>
ShouldTriggerNotification(computedScore) ==
    computedScore[1] > VAD_AVG_THRESHOLD * computedScore[2]

RECURSIVE SumScores(_)
SumScores(scores) == IF scores = <<>> THEN 0 ELSE Head(scores) + SumScores(Tail(scores))

\* the average as the fraction <<sum, length>>; 0 for an empty array
CalculateAverage(scores) ==
    IF Len(scores) # 0 THEN <<SumScores(scores), Len(scores)>> ELSE <<0, 1>>

\* _vadEmitter.on(VAD_SCORE_PUBLISHED, ...) and start(): one more listener
StartVADEmitter(ems, e) ==
    [ems EXCEPT ![e].listeners = @ + 1, ![e].started = TRUE]

\* _vadEmitter.removeAllListeners(VAD_SCORE_PUBLISHED) and stop()
StopVADEmitter(ems, e) ==
    [ems EXCEPT ![e].listeners = 0, ![e].started = FALSE]

\* the detector after n listeners have run _processVADScore on one score, as the record
\* of _processing, _scoreArray and the pending timeout
RECURSIVE ProcessVADScore(_, _, _)
ProcessVADScore(ctx, vadScore, n) ==
    IF n = 0 THEN ctx
    ELSE LET start == ShouldStartVADCompute(vadScore, ctx.processing)
             nowProcessing == ctx.processing \/ start
         IN  ProcessVADScore(
                 [processing |-> nowProcessing,
                  scoreArray |-> IF nowProcessing THEN Append(ctx.scoreArray, vadScore)
                                 ELSE ctx.scoreArray,
                  processTimeout |-> ctx.processTimeout \/ start],
                 vadScore, n - 1)

\* _reset()
Reset ==
    /\ processing' = FALSE
    /\ scoreArray' = <<>>
    /\ processTimeout' = FALSE

\* the next track the conference gets
NextTrack == 1 + Cardinality({e \in 1..MaxEmitters : emitters[e].status # "none"})

\* a queued promise job.  For the track of emitter e the chain of _trackAdded gives, in
\* this order: "createProcessor", the callback calling _createVADProcessor; "create", the
\* callback calling TrackVADEmitter.create; "thenable", the job that subscribes the chain
\* to the promise create returned; "resolved", the job that settles the chain with the
\* emitter; "created", the last callback.  When _createVADProcessor returns a promise,
\* "adoptProcessor" subscribes the chain to it and "processorResolved" or
\* "processorRejected" passes its outcome on; "rejected" and "unhandled" are the jobs in
\* which the two later then() of the chain pass a rejection on.  "muteChanged" and
\* "removed" are the callbacks of _trackMuteChanged(track) and _trackRemoved
Callback(kind, arg) == [kind |-> kind, arg |-> arg]

\* what a call of _createVADProcessor() can give: the processor, a promise of it, or an
\* exception
ProcessorOutcomes == {"value", "promise", "throw"}

\* the most listeners any emitter has
MostListeners ==
    CHOOSE n \in 0..MaxListeners :
        /\ \A e \in 1..MaxEmitters : emitters[e].listeners <= n
        /\ n = 0 \/ \E e \in 1..MaxEmitters : emitters[e].listeners = n

\* TRACK_ADDED, delivered in any task or microtask: for a local audio track the handler
\* queues the first callback of its chain on _vadInitTracker and returns; the chain is not
\* kept in _vadInitTracker
TrackAdded(isLocalAudioTrack, muted) ==
    /\ phase = "ready"
    /\ IF isLocalAudioTrack
       THEN /\ audioTrack = 0
            /\ NextTrack <= MaxEmitters
            /\ Len(microtasks) < MaxQueue
            /\ audioTrack' = NextTrack
            /\ trackMuted' = [trackMuted EXCEPT ![NextTrack] = muted]
            /\ emitters' = [emitters EXCEPT ![NextTrack].status = "added"]
            /\ microtasks' = Append(microtasks, Callback("createProcessor", NextTrack))
            /\ emitted' = 0
       ELSE UNCHANGED <<audioTrack, trackMuted, emitters, microtasks, emitted>>
    /\ last' = Idle("trackAdded")
    /\ UNCHANGED <<vadEmitter, processing, scoreArray, processTimeout, vadProcessors,
                   codecSelectionVars>>

\* the first callback of the chain of _trackAdded runs and calls _createVADProcessor(),
\* which the class takes from its creator.  It returns the processor itself, and the
\* callback that calls TrackVADEmitter.create is queued; or a promise of the processor,
\* and the job that subscribes the chain to that promise is queued; or it throws, and
\* the chain is rejected
VadProcessorCreated(e, outcome) ==
    /\ microtasks # <<>> /\ Head(microtasks) = Callback("createProcessor", e)
    /\ CASE outcome = "value" ->
              /\ microtasks' = Append(Tail(microtasks), Callback("create", e))
              /\ UNCHANGED <<vadProcessors, emitters>>
         [] outcome = "promise" ->
              /\ microtasks' = Append(Tail(microtasks), Callback("adoptProcessor", e))
              /\ vadProcessors' = [vadProcessors EXCEPT ![e] = "pending"]
              /\ UNCHANGED emitters
         [] outcome = "throw" ->
              /\ microtasks' = Append(Tail(microtasks), Callback("rejected", e))
              /\ emitters' = [emitters EXCEPT ![e].status = "failed"]
              /\ UNCHANGED vadProcessors
    /\ last' = Idle("vadProcessorCreated")
    /\ UNCHANGED <<audioTrack, trackMuted, vadEmitter, processing, scoreArray,
                   processTimeout, emitted, codecSelectionVars>>

\* the subscribing job runs: the chain now waits for the promise of the processor
VadProcessorAwaited(e) ==
    /\ microtasks # <<>> /\ Head(microtasks) = Callback("adoptProcessor", e)
    /\ microtasks' = Tail(microtasks)
    /\ vadProcessors' = [vadProcessors EXCEPT ![e] = "awaited"]
    /\ last' = Idle("vadProcessorAwaited")
    /\ UNCHANGED <<audioTrack, trackMuted, emitters, vadEmitter, processing, scoreArray,
                   processTimeout, emitted, codecSelectionVars>>

\* the promise of the processor is settled, in any task or microtask: it is fulfilled
\* with the processor or rejected, and the job that passes this on to the chain is queued
VadProcessorSettled(e, fulfilled) ==
    /\ vadProcessors[e] = "awaited"
    /\ Len(microtasks) < MaxQueue
    /\ vadProcessors' = [vadProcessors EXCEPT ![e] = "settled"]
    /\ microtasks' = Append(microtasks, Callback(IF fulfilled THEN "processorResolved"
                                                 ELSE "processorRejected", e))
    /\ last' = Idle("vadProcessorSettled")
    /\ UNCHANGED <<audioTrack, trackMuted, emitters, vadEmitter, processing, scoreArray,
                   processTimeout, emitted, codecSelectionVars>>

\* the job queued by the settling runs: with the processor the callback that calls
\* TrackVADEmitter.create is queued, with a rejection the chain is rejected
VadProcessorPassedOn(e) ==
    /\ microtasks # <<>>
    /\ \/ /\ Head(microtasks) = Callback("processorResolved", e)
          /\ microtasks' = Append(Tail(microtasks), Callback("create", e))
          /\ UNCHANGED emitters
       \/ /\ Head(microtasks) = Callback("processorRejected", e)
          /\ microtasks' = Append(Tail(microtasks), Callback("rejected", e))
          /\ emitters' = [emitters EXCEPT ![e].status = "failed"]
    /\ last' = Idle("vadProcessorPassedOn")
    /\ UNCHANGED <<audioTrack, trackMuted, vadEmitter, processing, scoreArray,
                   processTimeout, emitted, vadProcessors, codecSelectionVars>>

\* a rejected chain: the then() around TrackVADEmitter.create has no handler for it and
\* passes it on, and so does the last then(); nothing catches it, TrackVADEmitter.create
\* is never called
VadChainRejected(e) ==
    /\ microtasks # <<>>
    /\ \/ /\ Head(microtasks) = Callback("rejected", e)
          /\ microtasks' = Append(Tail(microtasks), Callback("unhandled", e))
          /\ last' = Idle("vadChainRejected")
       \/ /\ Head(microtasks) = Callback("unhandled", e)
          /\ microtasks' = Tail(microtasks)
          /\ last' = [Idle("vadChainRejected") EXCEPT !.fault = TRUE]
    /\ UNCHANGED <<audioTrack, trackMuted, emitters, vadEmitter, processing, scoreArray,
                   processTimeout, emitted, vadProcessors, codecSelectionVars>>

\* the second callback of the chain runs: TrackVADEmitter.create is called and returns a
\* promise, and the job that subscribes the chain to that promise is queued
VadEmitterCreateCalled(e) ==
    /\ microtasks # <<>> /\ Head(microtasks) = Callback("create", e)
    /\ emitters' = [emitters EXCEPT ![e].status = "creating"]
    /\ microtasks' = Append(Tail(microtasks), Callback("thenable", e))
    /\ last' = Idle("vadEmitterCreateCalled")
    /\ UNCHANGED <<audioTrack, trackMuted, vadEmitter, processing, scoreArray, processTimeout,
                   emitted, vadProcessors,
                   codecSelectionVars>>

\* the subscribing job runs: the chain now waits for the promise of TrackVADEmitter.create
VadEmitterCreateAwaited(e) ==
    /\ microtasks # <<>> /\ Head(microtasks) = Callback("thenable", e)
    /\ emitters' = [emitters EXCEPT ![e].status = "awaited"]
    /\ microtasks' = Tail(microtasks)
    /\ last' = Idle("vadEmitterCreateAwaited")
    /\ UNCHANGED <<audioTrack, trackMuted, vadEmitter, processing, scoreArray, processTimeout,
                   emitted, vadProcessors,
                   codecSelectionVars>>

\* TrackVADEmitter.create resolves for the track of emitter e, in any task or microtask:
\* the job that settles the promise of the then() around it is queued, behind the
\* callbacks already waiting
VadEmitterCreateResolved(e) ==
    /\ emitters[e].status = "awaited"
    /\ Len(microtasks) < MaxQueue
    /\ emitters' = [emitters EXCEPT ![e].status = "resolved"]
    /\ microtasks' = Append(microtasks, Callback("resolved", e))
    /\ last' = Idle("vadEmitterCreateResolved")
    /\ UNCHANGED <<audioTrack, trackMuted, vadEmitter, processing, scoreArray, processTimeout,
                   emitted, vadProcessors,
                   codecSelectionVars>>

\* the job queued by the resolution runs: the promise of the then() around
\* TrackVADEmitter.create is fulfilled, and only now the last callback of the chain of
\* _trackAdded is queued, behind every callback queued meanwhile
VadEmitterPromiseFulfilled(e) ==
    /\ microtasks # <<>> /\ Head(microtasks) = Callback("resolved", e)
    /\ microtasks' = Append(Tail(microtasks), Callback("created", e))
    /\ last' = Idle("vadEmitterPromiseFulfilled")
    /\ UNCHANGED <<audioTrack, trackMuted, emitters, vadEmitter, processing, scoreArray,
                   processTimeout, emitted, vadProcessors,
                   codecSelectionVars>>

\* the last callback of the chain of _trackAdded runs: the emitter is taken, and started
\* if the track is muted by now
VadEmitterCreated(e) ==
    /\ microtasks # <<>> /\ Head(microtasks) = Callback("created", e)
    /\ microtasks' = Tail(microtasks)
    /\ vadEmitter' = e
    /\ emitters' = IF trackMuted[e]
                   THEN StartVADEmitter([emitters EXCEPT ![e].status = "created"], e)
                   ELSE [emitters EXCEPT ![e].status = "created"]
    /\ last' = Idle("vadEmitterCreated")
    /\ UNCHANGED <<audioTrack, trackMuted, processing, scoreArray, processTimeout, emitted,
                   vadProcessors,
                   codecSelectionVars>>

\* TRACK_MUTE_CHANGED, delivered in any task or microtask: the handler queues its callback
\* on _vadInitTracker and returns
TrackMuteChanged(isLocalAudioTrack) ==
    /\ phase = "ready"
    /\ IF isLocalAudioTrack
       THEN /\ audioTrack # 0
            /\ Len(microtasks) < MaxQueue
            /\ MostListeners + Len(microtasks) < MaxListeners
            /\ trackMuted' = [trackMuted EXCEPT ![audioTrack] = ~@]
            /\ microtasks' = Append(microtasks, Callback("muteChanged", audioTrack))
            /\ emitted' = 0
       ELSE UNCHANGED <<trackMuted, microtasks, emitted>>
    /\ last' = Idle("trackMuteChanged")
    /\ UNCHANGED <<audioTrack, emitters, vadEmitter, processing, scoreArray, processTimeout,
                   vadProcessors,
                   codecSelectionVars>>

\* the callback of _trackMuteChanged runs; it reads track.isMuted() now
TrackMuteChangedCallback ==
    /\ microtasks # <<>> /\ Head(microtasks).kind = "muteChanged"
    /\ microtasks' = Tail(microtasks)
    /\ Reset
    /\ IF vadEmitter = 0
       THEN \* this._vadEmitter.getDeviceId() of null: a TypeError after _reset
            /\ emitters' = emitters
            /\ last' = [Idle("trackMuteChangedCallback") EXCEPT !.fault = TRUE]
       ELSE /\ emitters' = IF trackMuted[Head(microtasks).arg]
                           THEN StartVADEmitter(emitters, vadEmitter)
                           ELSE StopVADEmitter(emitters, vadEmitter)
            /\ last' = Idle("trackMuteChangedCallback")
    /\ UNCHANGED <<audioTrack, trackMuted, vadEmitter, emitted, vadProcessors,
                   codecSelectionVars>>

\* TRACK_REMOVED, delivered in any task or microtask: the track is out of the conference
\* and the handler queues its callback on _vadInitTracker
TrackRemoved(isLocalAudioTrack) ==
    /\ phase = "ready"
    /\ IF isLocalAudioTrack
       THEN /\ audioTrack # 0
            /\ Len(microtasks) < MaxQueue
            /\ audioTrack' = 0
            /\ microtasks' = Append(microtasks, Callback("removed", audioTrack))
            /\ emitted' = 0
       ELSE UNCHANGED <<audioTrack, microtasks, emitted>>
    /\ last' = Idle("trackRemoved")
    /\ UNCHANGED <<trackMuted, emitters, vadEmitter, processing, scoreArray, processTimeout,
                   vadProcessors,
                   codecSelectionVars>>

\* the callback of _trackRemoved runs
TrackRemovedCallback ==
    /\ microtasks # <<>> /\ Head(microtasks).kind = "removed"
    /\ microtasks' = Tail(microtasks)
    /\ IF vadEmitter # 0
       THEN /\ emitters' = [StopVADEmitter(emitters, vadEmitter)
                              EXCEPT ![vadEmitter].status = "destroyed"]
            /\ Reset
            /\ vadEmitter' = 0
       ELSE UNCHANGED <<emitters, processing, scoreArray, processTimeout, vadEmitter>>
    /\ last' = Idle("trackRemovedCallback")
    /\ UNCHANGED <<audioTrack, trackMuted, emitted, vadProcessors,
                   codecSelectionVars>>

\* emitter e publishes a score, in a task of its own: each of its listeners runs
\* _processVADScore
VadScorePublished(e, vadScore) ==
    /\ microtasks = <<>>
    /\ emitters[e].status = "created" /\ emitters[e].started /\ emitters[e].listeners > 0
    /\ Len(scoreArray) + emitters[e].listeners <= MaxScores
    /\ emitted < MaxEmitted
    /\ LET after == ProcessVADScore([processing |-> processing, scoreArray |-> scoreArray,
                                     processTimeout |-> processTimeout],
                                    vadScore, emitters[e].listeners)
       IN  /\ processing' = after.processing
           /\ scoreArray' = after.scoreArray
           /\ processTimeout' = after.processTimeout
    /\ last' = Idle("vadScorePublished")
    /\ UNCHANGED <<audioTrack, trackMuted, emitters, vadEmitter, emitted, microtasks,
                   vadProcessors,
                   codecSelectionVars>>

\* the timeout of PROCESS_TIME_FRAME_SPAN_MS elapsed, a task of its own: _calculateVADScore
CalculateVADScore ==
    /\ microtasks = <<>>
    /\ processTimeout
    /\ IF ShouldTriggerNotification(CalculateAverage(scoreArray))
       THEN /\ emitted' = emitted + 1
            /\ IF vadEmitter = 0
               THEN \* this._vadEmitter.getDeviceId() of null: a TypeError after the emit,
                    \* before _stopVADEmitter and _reset
                    /\ processTimeout' = FALSE
                    /\ UNCHANGED <<emitters, processing, scoreArray>>
                    /\ last' = [Idle("calculateVADScore") EXCEPT !.fault = TRUE]
               ELSE /\ emitters' = StopVADEmitter(emitters, vadEmitter)
                    /\ Reset
                    /\ last' = Idle("calculateVADScore")
       ELSE /\ Reset
            /\ UNCHANGED <<emitted, emitters>>
            /\ last' = Idle("calculateVADScore")
    /\ UNCHANGED <<audioTrack, trackMuted, vadEmitter, microtasks, vadProcessors,
                   codecSelectionVars>>

\* a detector in a conference that has been constructed
InitVAD == Init /\ ~e2ee /\ ~browser.isMobileDevice

NextVAD ==
    \/ \E isLocalAudioTrack \in BOOLEAN, muted \in BOOLEAN : TrackAdded(isLocalAudioTrack, muted)
    \/ \E e \in 1..MaxEmitters, outcome \in ProcessorOutcomes : VadProcessorCreated(e, outcome)
    \/ \E e \in 1..MaxEmitters : VadProcessorAwaited(e)
    \/ \E e \in 1..MaxEmitters, fulfilled \in BOOLEAN : VadProcessorSettled(e, fulfilled)
    \/ \E e \in 1..MaxEmitters : VadProcessorPassedOn(e)
    \/ \E e \in 1..MaxEmitters : VadChainRejected(e)
    \/ \E e \in 1..MaxEmitters : VadEmitterCreateCalled(e)
    \/ \E e \in 1..MaxEmitters : VadEmitterCreateAwaited(e)
    \/ \E e \in 1..MaxEmitters : VadEmitterCreateResolved(e)
    \/ \E e \in 1..MaxEmitters : VadEmitterPromiseFulfilled(e)
    \/ \E e \in 1..MaxEmitters : VadEmitterCreated(e)
    \/ \E isLocalAudioTrack \in BOOLEAN : TrackMuteChanged(isLocalAudioTrack)
    \/ TrackMuteChangedCallback
    \/ \E isLocalAudioTrack \in BOOLEAN : TrackRemoved(isLocalAudioTrack)
    \/ TrackRemovedCallback
    \/ \E e \in 1..MaxEmitters, vadScore \in VadScores : VadScorePublished(e, vadScore)
    \/ CalculateVADScore

SpecVAD == InitVAD /\ [][NextVAD]_vars

(***************************************************************************)
(* Claims about the negotiation.  In a state reached by a trigger, last    *)
(* describes that trigger and the other variables are what it worked on.   *)
(***************************************************************************)
JoinedParticipants == {p \in 1..MaxParticipants : participants[p].joined}

\* the constraint set of one participant: its codec list, else its single codec, else empty
ConstraintSetOf(info) ==
    IF info.codecList.defined THEN Range(info.codecList.list)
    ELSE IF info.codecType # Undefined THEN {info.codecType}
    ELSE {}

\* the remote constraint sets: one per connected participant, plus the visitor codecs
ConstraintSets ==
    {ConstraintSetOf(participants[p].info) : p \in JoinedParticipants}
    \cup {Range(visitorCodecs.list)}

\* codec c is in every non-empty constraint set
InEveryConstraintSet(c) == \A cs \in ConstraintSets : cs = {} \/ c \in cs

\* the base order of a trigger on the routed session
RoutedBaseOrder == IF e2ee THEN <<VP8>> ELSE codecPreferenceOrder["jvb"]

\* C1: for a ROUTED session the order a trigger computes is the base order restricted, in
\* base-order sequence, to the codecs present in every non-empty remote constraint set
\* (participants' codec list, else single codec, else nothing; plus the visitor codecs).
C1_RoutedOrderIsIntersection ==
    (last.completed /\ last.session = "jvb") =>
        last.order = FilterIn(RoutedBaseOrder,
                              {c \in Range(RoutedBaseOrder) : InEveryConstraintSet(c)})

\* C1 witness: participants advertising [VP8] and [VP8, VP9] leave exactly [VP8] of a longer
\* base order, with a participant that advertises nothing also connected or not
C1_Witness ==
    /\ last.completed /\ last.session = "jvb" /\ ~e2ee
    /\ Len(codecPreferenceOrder["jvb"]) = 4
    /\ {VP8} \in ConstraintSets /\ {VP8, VP9} \in ConstraintSets
    /\ last.order = <<VP8>>

\* the preference list of the connection type of a session
PreferenceOf(session) ==
    IF session = "jvb" THEN codecPreferenceOrder["jvb"] ELSE codecPreferenceOrder["p2p"]

\* C2 as stated: the order computed and pushed by any trigger is a subsequence of the
\* CodecPreference of the session's connection type.
C2_OrderIsSubsequenceOfPreference ==
    last.completed =>
        /\ IsSubseq(last.order, PreferenceOf(last.session))
        /\ \A call \in last.calls : IsSubseq(call[2], PreferenceOf(call[1]))

\* C2 amended: the order computed and pushed by any trigger is a subsequence of the
\* CodecPreference of the session's connection type, except for a ROUTED session while
\* E2EE is active, where it is a subsequence of [VP8].
C2_OrderIsSubsequenceUnlessE2EE ==
    last.completed =>
        LET base == IF e2ee /\ last.session = "jvb" THEN <<VP8>>
                    ELSE PreferenceOf(last.session)
        IN  /\ IsSubseq(last.order, base)
            /\ \A call \in last.calls : call[1] = last.session /\ IsSubseq(call[2], base)

\* C2 witness: a trigger pushed a proper, non-empty part of a preference list
C2_Witness ==
    /\ last.completed /\ ~e2ee /\ last.session = "jvb"
    /\ last.calls # {}
    /\ Len(last.order) >= 2
    /\ Len(last.order) < Len(codecPreferenceOrder["jvb"])

\* C3 as stated: with E2EE active the order of a trigger on the ROUTED session is [VP8].
C3_E2EERoutedOrderIsVP8 ==
    (last.completed /\ e2ee /\ last.session = "jvb") => last.order = <<VP8>>

\* C3 amended: with E2EE active the order of a trigger on the ROUTED session is [VP8]
\* whatever the configured preference, provided VP8 is in every non-empty remote constraint
\* set; otherwise the order is empty and nothing is pushed.
C3_E2EERoutedOrderIsVP8OrEmpty ==
    (last.completed /\ e2ee /\ last.session = "jvb") =>
        IF InEveryConstraintSet(VP8)
        THEN last.order = <<VP8>> /\ last.calls = {<<"jvb", <<VP8>>>>}
        ELSE last.order = <<>> /\ last.calls = {}

\* C3 witness: [VP8] is pushed under E2EE although the jvb preference does not hold VP8
C3_Witness ==
    /\ last.completed /\ e2ee /\ last.session = "jvb"
    /\ VP8 \notin Range(codecPreferenceOrder["jvb"])
    /\ JoinedParticipants # {}
    /\ videoCodecs["jvb"] = <<VP8>>

\* C4: the order of a sessionStarted trigger on a PEER session is the p2p preference list,
\* whatever the participants and the visitors advertise.
C4_PeerOrderIsPreference ==
    (last.completed /\ last.handler = "sessionStarted" /\ last.session = "p2p") =>
        last.order = codecPreferenceOrder["p2p"]

\* C4 witness: a p2p session started under E2EE while a participant and the visitors
\* advertise codec lists that leave out codecs of the p2p preference
C4_Witness ==
    /\ last.completed /\ last.handler = "sessionStarted" /\ last.session = "p2p"
    /\ e2ee
    /\ \E p \in JoinedParticipants : ConstraintSetOf(participants[p].info) = {VP8}
    /\ visitorCodecs.list = <<VP9, H264>>
    /\ Len(last.order) >= 3

\* C5: setVideoCodecs is called on the target session exactly when the trigger's order is
\* not empty; an empty order makes no call and leaves every session's list as it was, and
\* a non-empty one is pushed whatever happened before.
C5_PushIffNonEmpty ==
    [][last'.completed =>
         IF last'.order # <<>>
         THEN /\ last'.calls = {<<last'.session, last'.order>>}
              /\ videoCodecs' = [videoCodecs EXCEPT ![last'.session] = last'.order]
         ELSE /\ last'.calls = {}
              /\ videoCodecs' = videoCodecs]_vars

\* C5 witness: a trigger computed an empty order and the session keeps the list pushed
\* before
C5_Witness ==
    /\ last.completed /\ last.order = <<>> /\ last.session = "jvb"
    /\ videoCodecs["jvb"] # <<>>

MembershipHandlers == {"participantJoined", "participantLeft", "visitorCodecsChanged"}

\* C6: a participantJoined, participantLeft or visitorCodecsChanged trigger that finds no
\* ROUTED session calls setVideoCodecs on no session and leaves both preference lists.
C6_NoRoutedSessionNoOp ==
    [][(last'.handler \in MembershipHandlers /\ ~jvbJingleSession') =>
         /\ last'.calls = {}
         /\ videoCodecs' = videoCodecs
         /\ codecPreferenceOrder' = codecPreferenceOrder]_vars

\* C6 witness: the visitors' codecs changed while only a p2p session, with a list pushed
\* to it, and a participant were there
C6_Witness ==
    /\ last.handler = "visitorCodecsChanged"
    /\ ~jvbJingleSession /\ p2pJingleSession
    /\ videoCodecs["p2p"] # <<>>
    /\ visitorCodecs.list # <<>>
    /\ JoinedParticipants # {}

\* C7 as stated: no event handler raises a fault to its caller.
C7_NoHandlerFaults == ~last.fault

(***************************************************************************)
(* Claims about the telemetry.                                             *)
(***************************************************************************)
\* the positions of the samples of track t in the batch just processed
SamplesOf(t) == {i \in 1..Len(statsBatch) : statsBatch[i].track = t}

\* C8: the series are append-only: a processed batch appends one record to the series of
\* each track with a sample in it and none to the others, no step changes or removes a
\* record, and a series is as long as the number of batches with a sample of its track.
C8_SeriesAppendOnly ==
    [][\A t \in TrackIds :
         /\ Len(encodeTimeStats'[t]) >= Len(encodeTimeStats[t])
         /\ SubSeq(encodeTimeStats'[t], 1, Len(encodeTimeStats[t])) = encodeTimeStats[t]
         /\ Len(encodeTimeStats'[t]) = batchCount'[t]
         /\ (last'.handler = "encodeStatsReceived" /\ last'.completed) =>
               Len(encodeTimeStats'[t])
                 = Len(encodeTimeStats[t])
                   + (IF \E i \in 1..Len(statsBatch') : statsBatch'[i].track = t
                      THEN 1 ELSE 0)]_vars

\* C8 witness: two batches with samples of t1, the second with a sample of t2 as well
C8_Witness ==
    /\ last.handler = "encodeStatsReceived" /\ last.completed
    /\ batchCount["t1"] = 2 /\ Len(encodeTimeStats["t1"]) = 2
    /\ encodeTimeStats["t1"][1] # encodeTimeStats["t1"][2]
    /\ SamplesOf("t2") # {} /\ Len(encodeTimeStats["t2"]) = 1

RECURSIVE SumEncodeTime(_)
SumEncodeTime(positions) ==
    IF positions = {} THEN 0
    ELSE LET i == CHOOSE i \in positions : TRUE
         IN  statsBatch[i].stat.encodeTime + SumEncodeTime(positions \ {i})

ShortSide(i) ==
    IF statsBatch[i].stat.resolution.width < statsBatch[i].stat.resolution.height
    THEN statsBatch[i].stat.resolution.width
    ELSE statsBatch[i].stat.resolution.height

\* C9: the record appended for a track of a batch has the mean of the encode times of the
\* track's samples, the largest min(width, height) among them, the first reason other than
\* 'none' in processing order (else 'none'), and the codec and timestamp of the last of them.
C9_RecordAggregatesGroup ==
    (last.handler = "encodeStatsReceived" /\ last.completed) =>
        \A t \in TrackIds : SamplesOf(t) # {} =>
            LET record == encodeTimeStats[t][Len(encodeTimeStats[t])]
                final == CHOOSE i \in SamplesOf(t) : \A j \in SamplesOf(t) : j <= i
                limited == {i \in SamplesOf(t) :
                               statsBatch[i].stat.qualityLimitationReason # "none"}
            IN  /\ record.avgEncodeTime.den > 0
                /\ record.avgEncodeTime.num * Cardinality(SamplesOf(t))
                     = SumEncodeTime(SamplesOf(t)) * record.avgEncodeTime.den
                /\ \E i \in SamplesOf(t) : record.encodeResolution = ShortSide(i)
                /\ \A i \in SamplesOf(t) : record.encodeResolution >= ShortSide(i)
                /\ IF limited = {} THEN record.qualityLimitationReason = "none"
                   ELSE \E i \in limited :
                           /\ \A j \in limited : i <= j
                           /\ record.qualityLimitationReason
                                = statsBatch[i].stat.qualityLimitationReason
                /\ record.codec = statsBatch[final].stat.codec
                /\ record.timestamp = statsBatch[final].stat.timestamp

\* C9 witness: a batch with three samples of t1 (not limited, then limited by bandwidth,
\* then by cpu) in the middle of which a sample of t2 is processed
C9_Witness ==
    /\ last.handler = "encodeStatsReceived" /\ last.completed
    /\ Len(statsBatch) = 4
    /\ Cardinality(SamplesOf("t1")) = 3 /\ SamplesOf("t2") = {2}
    /\ statsBatch[1].stat.qualityLimitationReason = "none"
    /\ statsBatch[3].stat.qualityLimitationReason = "bandwidth"
    /\ statsBatch[4].stat.qualityLimitationReason = "cpu"
    /\ encodeTimeStats["t1"][1].avgEncodeTime = [num |-> 15, den |-> 1]
    /\ encodeTimeStats["t1"][1].qualityLimitationReason = "bandwidth"
    /\ encodeTimeStats["t1"][1].encodeResolution = 720
    /\ encodeTimeStats["t1"][1].codec = VP9

\* the order the routed session is to get when the visitors' codecs are visitors: the base
\* order cut to the codecs in every non-empty set of the participants and of visitors
RoutedOrderAgainst(visitors) ==
    LET sets == {ConstraintSetOf(participants[p].info) : p \in JoinedParticipants}
                \cup {Range(visitors)}
    IN  FilterIn(RoutedBaseOrder,
                 {c \in Range(RoutedBaseOrder) : \A cs \in sets : cs = {} \/ c \in cs})

\* C17 as stated: handling visitorCodecsChanged(list) makes the delivered list the visitor
\* codecs and runs the recomputation against it: with a ROUTED session the trigger computes
\* the order that the participants and the new list alone allow.
C17_VisitorChangeRecomputes ==
    [][\A codecList \in VisitorLists, sameArray \in BOOLEAN :
          (UpdateVisitorCodecs(codecList, sameArray) /\ codecList.defined /\ jvbJingleSession)
              => /\ visitorCodecs' = codecList
                 /\ last'.completed /\ last'.session = "jvb"
                 /\ last'.order = RoutedOrderAgainst(codecList.list)]_vars

\* C17 amended: handling visitorCodecsChanged(list) with an array other than the one
\* already held makes the delivered list the visitor codecs, never a merge, and with a
\* ROUTED session computes the order that the participants and the new list alone allow;
\* delivering the array already held computes nothing.
C17_NewVisitorListRecomputes ==
    [][\A codecList \in VisitorLists :
          /\ (UpdateVisitorCodecs(codecList, FALSE) /\ codecList.defined)
                => /\ visitorCodecs' = codecList
                   /\ jvbJingleSession =>
                        /\ last'.completed /\ last'.session = "jvb"
                        /\ last'.order = RoutedOrderAgainst(codecList.list)
          /\ UpdateVisitorCodecs(codecList, TRUE)
                => ~last'.completed /\ last'.calls = {} /\ videoCodecs' = videoCodecs]_vars

\* C17 witness: the visitors' codecs became [VP9, H264] with a participant that has both
\* and VP8, and the routed session got exactly the two
C17_Witness ==
    /\ last.handler = "visitorCodecsChanged" /\ last.completed /\ last.session = "jvb"
    /\ ~e2ee
    /\ Len(codecPreferenceOrder["jvb"]) = 4
    /\ JoinedParticipants # {}
    /\ visitorCodecs = ListOf(<<VP9, H264>>)
    /\ last.order = <<VP9, H264>>
    /\ videoCodecs["jvb"] = <<VP9, H264>>

\* C18 as stated: after a membership or visitor trigger every codec of the order set on
\* the ROUTED session is in every non-empty constraint set of the roster of that trigger.
C18_RoutedOrderWithinLatestRoster ==
    (last.handler \in MembershipHandlers /\ ~last.fault) =>
        \A c \in Range(videoCodecs["jvb"]) : InEveryConstraintSet(c)

\* C18 amended: a membership or visitor trigger that computes a non-empty order for the
\* ROUTED session leaves that order on the session, each codec of it in every non-empty
\* constraint set of the roster of the trigger; a trigger that computes an empty order, or
\* none, leaves the session the order it had, whatever the roster has become.
C18_RoutedOrderWithinRosterOrKept ==
    [][(last'.handler \in MembershipHandlers /\ jvbJingleSession') =>
         IF last'.completed /\ last'.order # <<>>
         THEN /\ videoCodecs'["jvb"] = last'.order
              /\ \A c \in Range(videoCodecs'["jvb"]) : InEveryConstraintSet(c)'
         ELSE videoCodecs'["jvb"] = videoCodecs["jvb"]]_vars

\* C18 witness: the computation came out empty and the routed session keeps an order with a
\* codec that some constraint set of the roster lacks
C18_Witness ==
    /\ last.handler \in MembershipHandlers /\ last.completed /\ last.session = "jvb"
    /\ last.order = <<>>
    /\ \E c \in Range(videoCodecs["jvb"]) : ~InEveryConstraintSet(c)

\* C19: no order given to setVideoCodecs of any session, p2p or jvb, while end-to-end
\* encryption is active contains VP9, whenever encryption became active.
C19_NoVP9PushedUnderE2EE ==
    e2ee => \A call \in last.calls : VP9 \notin Range(call[2])

\* C24: participantJoined, participantLeft and visitorCodecsChanged call setVideoCodecs
\* on the jvb session only and leave the p2p session's order; the p2p session gets a
\* setVideoCodecs call only from the sessionStarted trigger of that session.
C24_MembershipTriggersPushToRoutedOnly ==
    [][/\ last'.handler \in MembershipHandlers =>
            /\ \A call \in last'.calls : call[1] = "jvb"
            /\ videoCodecs'["p2p"] = videoCodecs["p2p"]
       /\ (\E call \in last'.calls : call[1] = "p2p") =>
            last'.handler = "sessionStarted" /\ last'.session = "p2p"]_vars

\* C24 witness: a participant that has only H264 joined with both sessions up; the jvb
\* session got [H264] and the p2p session kept the longer order of its start
C24_Witness ==
    /\ last.handler = "participantJoined" /\ last.completed
    /\ jvbJingleSession /\ p2pJingleSession
    /\ last.calls = {<<"jvb", <<H264>>>>}
    /\ videoCodecs["jvb"] = <<H264>>
    /\ Len(videoCodecs["p2p"]) > 1

\* C25: no event after construction (sessionStarted, participantJoined, participantLeft,
\* visitorCodecsChanged, encodeStatsReceived, a change of the E2EE state) changes what
\* getCodecPreferenceList and getScreenshareCodec return.
C25_PreferenceFixedAfterConstruction ==
    [][phase = "ready" =>
         /\ codecPreferenceOrder' = codecPreferenceOrder
         /\ screenshareCodec' = screenshareCodec]_vars

\* C25 witness: encryption was switched on after construction (VP9 is still in the
\* preference list), a list was pushed to the jvb session and a stats batch was taken
C25_Witness ==
    /\ e2ee
    /\ VP9 \in Range(codecPreferenceOrder["jvb"])
    /\ videoCodecs["jvb"] = <<VP8>>
    /\ JoinedParticipants # {}
    /\ visitorCodecs # ListOf(<<>>)
    /\ last.handler = "encodeStatsReceived" /\ last.completed

\* C26: an encode-stats batch whose peer connection is not that of the active media
\* session is discarded: the series of every track, and everything else the object and
\* the conference hold, are as before.
C26_ForeignBatchDiscarded ==
    [][(/\ last'.handler = "encodeStatsReceived"
        /\ activeSession = NoSession \/ last'.session # activeSession) =>
           /\ encodeTimeStats' = encodeTimeStats
           /\ ~last'.completed
           /\ UNCHANGED <<delivered, batchCount, visitorCodecs, videoCodecs, selectionVars,
                          conferenceVars>>]_vars

\* C26 witness: the jvb session is active, track t1 has a series already, and a batch of
\* the p2p session's peer connection left it as it was
C26_Witness ==
    /\ last.handler = "encodeStatsReceived" /\ last.session = "p2p" /\ ~last.fault
    /\ activeSession = "jvb"
    /\ Len(encodeTimeStats["t1"]) = 1
    /\ delivered = 1

(***************************************************************************)
(* Claims about the constructor.                                           *)
(***************************************************************************)
\* the codecs the platform reports as usable
PlatformCodecs ==
    {c \in {VP8, VP9, H264, AV1} : \E m \in rtcCodecs : ToLowerCase(m) = VideoMime(c)}

\* the CapabilitySet of a connection type: the codecs of its target table the platform
\* reports, and VP8 alone when it reports nothing usable
CapabilitySet(ct) ==
    LET usable == Range(VideoCodecMimeTypes(ct, browser.isMobileDevice)) \cap PlatformCodecs
    IN  IF usable = {} THEN {VP8} ELSE usable

\* C10: for every connection type and configuration, every entry of
\* getCodecPreferenceList(connectionType) is a member of that type's CapabilitySet
\* ({VP8} when the platform reports nothing usable).
C10_PreferenceWithinCapabilitySet ==
    phase = "ready" =>
        \A ct \in ConnectionTypes : Range(codecPreferenceOrder[ct]) \subseteq CapabilitySet(ct)

\* C10 witness: an explicit order naming a codec the platform lacks, with a preferred codec
\* it lacks too, is cut down to what the platform has
C10_Witness ==
    /\ phase = "ready"
    /\ options["jvb"].preferenceOrder = ListOf(<<"AV1", "vp8">>)
    /\ options["jvb"].preferredCodec = "vp9"
    /\ rtcCodecs = {"video/VP8", "video/H264"}
    /\ codecPreferenceOrder["jvb"] = <<VP8>>

\* C27: for every configuration and platform capability the preference list built for
\* each connection type is non-empty (so that a trigger on a session without remote
\* constraints has an order to push).
C27_PreferenceNonEmpty ==
    phase = "ready" => \A ct \in ConnectionTypes : codecPreferenceOrder[ct] # <<>>

\* VP9 post-processing applies to a connection type: encryption is on, or VP9 encode is
\* not supported for it
Vp9Demoted(ct) ==
    e2ee \/ ~(browser.supportsVP9 \/ (browser.isWebKitBased /\ ct = "p2p"))

\* the explicit order of a connection type in lower case, cut down to its CapabilitySet
ExplicitWithinCapabilitySet(ct) ==
    FilterIn(LowerAll(options[ct].preferenceOrder.list), CapabilitySet(ct))

\* the legacy path was taken for a connection type
LegacyPath(ct) ==
    /\ ~options[ct].preferenceOrder.defined
    /\ options[ct].preferredCodec # Undefined \/ options[ct].disabledCodec # Undefined

\* what the legacy path is to leave before VP9 post-processing: the CapabilitySet in
\* table order, without the disabled codec unless that is VP8, the preferred codec in front
LegacyExpected(ct) ==
    LET caps == supportedVideoCodecs[ct]
        d == ToLowerCase(options[ct].disabledCodec)
        p == ToLowerCase(options[ct].preferredCodec)
        kept == IF d # Undefined /\ d # VP8 THEN Range(caps) \ {d} ELSE Range(caps)
        enabled == FilterIn(caps, kept)
    IN  IF p \in kept THEN <<p>> \o FilterIn(enabled, kept \ {p}) ELSE enabled

\* C11: for every connection type and every configuration, explicit order of any content
\* or legacy fields, getCodecPreferenceList(connectionType) contains no codec twice.
C11_PreferenceHasNoDuplicates ==
    phase = "ready" =>
        \A ct \in ConnectionTypes :
            \A i, j \in DOMAIN codecPreferenceOrder[ct] :
                codecPreferenceOrder[ct][i] = codecPreferenceOrder[ct][j] => i = j

\* C12: with an explicit preference order the result is, up to VP9 post-processing (which
\* only moves or removes VP9), the explicit order cut down to the CapabilitySet in its own
\* order; preferredCodec and disabledCodec change nothing.
C12_ExplicitOrderIsFilteredConfig ==
    phase = "ready" =>
        \A ct \in ConnectionTypes :
            options[ct].preferenceOrder.defined =>
                /\ FilterOut(codecPreferenceOrder[ct], VP9)
                     = FilterOut(ExplicitWithinCapabilitySet(ct), VP9)
                /\ ~Vp9Demoted(ct) =>
                     codecPreferenceOrder[ct] = ExplicitWithinCapabilitySet(ct)

\* C12 witness: an explicit order given together with a preferred and a disabled codec
\* that would both reorder it
C12_Witness ==
    /\ phase = "ready"
    /\ options["jvb"].preferenceOrder = ListOf(<<"h264", "vp8">>)
    /\ options["jvb"].preferredCodec = "VP8"
    /\ options["jvb"].disabledCodec = "h264"
    /\ ~Vp9Demoted("jvb")
    /\ codecPreferenceOrder["jvb"] = <<H264, VP8>>

\* C13 as stated: a configured preferredCodec that is in the supported set of the
\* connection type is the first element of getCodecPreferenceList.
C13_PreferredCodecIsFirst ==
    phase = "ready" =>
        \A ct \in ConnectionTypes :
            LET p == ToLowerCase(options[ct].preferredCodec)
            IN  options[ct].preferredCodec # Undefined /\ p \in Range(supportedVideoCodecs[ct])
                    => /\ Len(codecPreferenceOrder[ct]) > 0
                       /\ codecPreferenceOrder[ct][1] = p

\* C13 amended: without an explicit order, a configured preferredCodec that is in the
\* supported set, is not the codec disabledCodec removes, and is not VP9 while VP9
\* post-processing applies, is the first element of getCodecPreferenceList.
C13_PreferredCodecIsFirstLegacy ==
    phase = "ready" =>
        \A ct \in ConnectionTypes :
            LET p == ToLowerCase(options[ct].preferredCodec)
                d == ToLowerCase(options[ct].disabledCodec)
            IN  (/\ ~options[ct].preferenceOrder.defined
                 /\ options[ct].preferredCodec # Undefined
                 /\ p \in Range(supportedVideoCodecs[ct])
                 /\ d # p \/ p = VP8
                 /\ p # VP9 \/ ~Vp9Demoted(ct))
                    => /\ Len(codecPreferenceOrder[ct]) > 0
                       /\ codecPreferenceOrder[ct][1] = p

\* C13 witness: the preferred codec is third in the desktop table and comes out first
C13_Witness ==
    /\ phase = "ready"
    /\ ~browser.isMobileDevice
    /\ ~options["jvb"].preferenceOrder.defined
    /\ options["jvb"].preferredCodec = "h264"
    /\ options["jvb"].disabledCodec = Undefined
    /\ ~Vp9Demoted("jvb")
    /\ codecPreferenceOrder["jvb"] = <<H264, VP9, VP8>>

\* C14: on the legacy path the result is, up to VP9 post-processing, the CapabilitySet in
\* table order without disabledCodec unless that is VP8 and with preferredCodec moved to
\* the front, the other codecs keeping their order; disabledCodec = VP8 never removes VP8.
C14_LegacyOrder ==
    phase = "ready" =>
        \A ct \in ConnectionTypes :
            LegacyPath(ct) =>
                /\ FilterOut(codecPreferenceOrder[ct], VP9) = FilterOut(LegacyExpected(ct), VP9)
                /\ ~Vp9Demoted(ct) => codecPreferenceOrder[ct] = LegacyExpected(ct)
                /\ ToLowerCase(options[ct].disabledCodec) = VP8
                     /\ VP8 \in Range(supportedVideoCodecs[ct])
                        => VP8 \in Range(codecPreferenceOrder[ct])

\* C14 witness: VP8 is named as the disabled codec and stays, behind the preferred codec
C14_Witness ==
    /\ phase = "ready"
    /\ ~browser.isMobileDevice
    /\ ~options["jvb"].preferenceOrder.defined
    /\ options["jvb"].disabledCodec = "VP8"
    /\ options["jvb"].preferredCodec = "h264"
    /\ ~Vp9Demoted("jvb")
    /\ codecPreferenceOrder["jvb"] = <<H264, VP9, VP8>>
    /\ codecPreferenceOrder["p2p"] = <<H264, VP9, VP8>>

\* C15: for every device class, connection type and platform codec set the supported
\* codecs are the target table (desktop VP9 VP8 H264 AV1; mobile p2p H264 VP8 VP9 AV1;
\* mobile jvb VP8 VP9 H264 AV1) cut down to the platform's codecs in table order, and
\* exactly VP8 when that leaves nothing.
C15_CapabilitySetIsTableCutToPlatform ==
    phase = "ready" =>
        \A ct \in ConnectionTypes :
            LET table == IF ~browser.isMobileDevice THEN <<"vp9", "vp8", "h264", "av1">>
                         ELSE IF ct = "p2p" THEN <<"h264", "vp8", "vp9", "av1">>
                         ELSE <<"vp8", "vp9", "h264", "av1">>
                usable == FilterIn(table, PlatformCodecs)
            IN  /\ supportedVideoCodecs[ct] = (IF usable = <<>> THEN <<"vp8">> ELSE usable)
                /\ supportedVideoCodecs[ct] # <<>>

\* C15 witness: a mobile device whose platform reports VP9 and H264 only
C15_Witness ==
    /\ phase = "ready"
    /\ browser.isMobileDevice
    /\ rtcCodecs = {"video/VP9", "video/H264"}
    /\ supportedVideoCodecs["p2p"] = <<H264, VP9>>
    /\ supportedVideoCodecs["jvb"] = <<VP9, H264>>

\* C20: VP9 post-processing at construction, after whichever configuration branch ran:
\* with encryption on VP9 is absent from the result; otherwise, when VP9 encode is not
\* supported and VP9 is in the order, VP9 is last and the other codecs keep their order;
\* otherwise the order is unchanged.
C20_Vp9PostProcessing ==
    phase = "ready" =>
        \A ct \in ConnectionTypes :
            LET before == ConfiguredOrder(options[ct], supportedVideoCodecs[ct])
                after == codecPreferenceOrder[ct]
            IN  IF e2ee THEN VP9 \notin Range(after)
                ELSE IF Vp9Demoted(ct) /\ VP9 \in Range(before)
                THEN /\ after[Len(after)] = VP9
                     /\ FilterOut(after, VP9) = FilterOut(before, VP9)
                ELSE after = before

(***************************************************************************)
(* Claims about the talk-while-muted detection.                            *)
(***************************************************************************)
\* C16: within one muted phase of the local audio track, from a mute (or the adding of a
\* muted track) until the next mute toggle or removal of the track, at most one
\* VAD_TALK_WHILE_MUTED is emitted, whatever the scores, timeouts and track events.
C16_AtMostOneEventPerMutedPhase ==
    (audioTrack # 0 /\ trackMuted[audioTrack]) => emitted <= 1

\* C21: create and destroy take effect in event order: when the local audio track has
\* been removed and every pending asynchronous step has run (no emitter creation under
\* way, no callback queued), the detector holds no VAD emitter and no emitter is left
\* running.
C21_RemovedTrackLeavesNoEmitter ==
    (/\ audioTrack = 0
     /\ microtasks = <<>>
     /\ \A e \in 1..MaxEmitters :
            emitters[e].status \in {"none", "created", "destroyed", "failed"}) =>
        /\ vadEmitter = 0
        /\ \A e \in 1..MaxEmitters : ~emitters[e].started /\ emitters[e].listeners = 0

\* C22: in every interleaving of TRACK_ADDED, emitter creation and TRACK_MUTE_CHANGED the
\* mute-change callback finds the emitter initialised: it never starts or stops a null
\* emitter.
C22_MuteChangeFindsEmitter ==
    last.handler = "trackMuteChangedCallback" => ~last.fault

\* C23: while the local audio track is unmuted or removed and the callbacks of the track
\* events have run (an unmute or a TRACK_REMOVED was handled and no mute since), no
\* timeout is pending, the score buffer is empty, no score listener is attached and no
\* VAD_TALK_WHILE_MUTED has been emitted.
C23_NothingRunsWhileUnmuted ==
    (microtasks = <<>> /\ (audioTrack = 0 \/ ~trackMuted[audioTrack])) =>
        /\ ~processTimeout
        /\ scoreArray = <<>>
        /\ \A e \in 1..MaxEmitters : emitters[e].listeners = 0
        /\ emitted = 0

====
